---- MODULE Spec2Model ----
(***************************************************************************)
(* Model of the two Vosk transcription entry points of the repository:     *)
(*   scripts/transcribe.py        (positional arguments, script = "T")     *)
(*   scripts/transcribe_audio.py  (flag arguments,       script = "A")     *)
(* One run of one script is one behaviour.  The recognition engine, the    *)
(* wave reader and the file system are the environment: every value they   *)
(* return, and every exception they may raise, is a nondeterministic       *)
(* choice.  Texts are sequences of characters so that strip() and join()   *)
(* are computed, not assumed.                                              *)
(***************************************************************************)
EXTENDS Integers, Sequences, FiniteSets, TLC

\* ------------------------------------------------------------------ bounds
\* Largest number of frames in the audio file.
MaxFrames == 6
\* Largest --chunk-size given to transcribe_audio.py.
MaxChunk == 3
\* Largest number of utterance boundaries the engine reports in one run.
MaxBoundaries == 1

\* ------------------------------------------------------- program constants
\* transcribe.py reads wf.getframerate() * 5 frames per chunk and uses the
\* same 5 for the fallback start/end of a segment.
WindowSeconds == 5

\* Sample rates of the audio files considered (frames per second).
Framerates == {1, 2}

\* ------------------------------------------------------------- text helpers
SP == " "
EmptyText == << >>

\* str.strip(): drop leading and trailing whitespace.
RECURSIVE LStrip(_)
LStrip(s) == IF s = << >> THEN << >>
             ELSE IF Head(s) = SP THEN LStrip(Tail(s)) ELSE s

RECURSIVE RStrip(_)
RStrip(s) == IF s = << >> THEN << >>
             ELSE IF s[Len(s)] = SP THEN RStrip(SubSeq(s, 1, Len(s) - 1)) ELSE s

Strip(s) == RStrip(LStrip(s))

\* " ".join(list)
RECURSIVE Join(_)
Join(l) == IF l = << >> THEN << >>
           ELSE IF Len(l) = 1 THEN l[1]
           ELSE l[1] \o <<SP>> \o Join(Tail(l))

\* full_text += text + " " over a list, starting from "" (transcribe.py:93)
RECURSIVE ConcatWithSpace(_)
ConcatWithSpace(l) == IF l = << >> THEN << >>
                      ELSE l[1] \o <<SP>> \o ConcatWithSpace(Tail(l))

\* ------------------------------------------------------- engine results
\* What json.loads(rec.Result()) / json.loads(rec.FinalResult()) can be: a
\* dict with a "text" and, when hasResult, a "result" word list.
Texts == {EmptyText, <<SP>>, <<"a">>, <<SP, "a">>}
Word(s, e) == [start |-> s, end |-> e]
WordLists == {<< >>, <<Word(1, 2), Word(3, 4)>>}
EngineResults ==
    {r \in [hasResult : BOOLEAN, text : Texts, words : WordLists] :
        ~r.hasResult => r.words = << >>}

\* ------------------------------------------------------------------ state
VARIABLES
    script,       \* "T" = transcribe.py, "A" = transcribe_audio.py
    argcOk,       \* T: len(sys.argv) >= 2
    audioExists,  \* os.path.exists(audio_path)
    modelExists,  \* os.path.exists(model_path), after defaulting
    nchannels, sampwidth, comptype, framerate, nframes,  \* the WAV header
    chunkArg,     \* A: --chunk-size
    pc,           \* position in the script
    modelLoaded,  \* Model(model_path) returned
    wfOpen,       \* "never" | "open": wave.open returned (never closed)
    session,      \* KaldiRecognizer(...) returned
    chunk_size,   \* frames asked per readframes call
    cursor,       \* wf.tell(): frames read so far
    lastRead,     \* frames returned by the last readframes call, -1 if none
    eofSeen,      \* a readframes call returned zero frames
    fed,          \* lengths of the chunks passed to AcceptWaveform, in order
    boundary,     \* value of the last AcceptWaveform call
    boundaries,   \* AcceptWaveform calls that returned True
    drains,       \* calls of rec.Result()
    flushes,      \* calls of rec.FinalResult()
    produced,     \* the engine results returned by Result/FinalResult, in order
    raisedAt,     \* "none" or the step whose call raised an Exception
    results,      \* T: the list `results`; A: result["results"]
    full_text,    \* A: the local list full_text
    result,       \* A: the dict `result` without its "results" list
    out,          \* the JSON documents printed to standard output, in order
    exitCode      \* -1 while running, then the process exit status

inputs == <<script, argcOk, audioExists, modelExists, nchannels, sampwidth,
            comptype, framerate, nframes, chunkArg>>
reader == <<wfOpen, chunk_size, cursor, lastRead, eofSeen>>
engine == <<modelLoaded, session, fed, boundary, boundaries,
                   drains, flushes,
            produced>>
collect == <<results, full_text, result>>
vars == <<inputs, pc, reader, engine, raisedAt, collect, out, exitCode>>

None == "None"
NoResultDict == [success |-> FALSE, error |-> None, full_text |-> EmptyText]

Init ==
    /\ script \in {"T", "A"}
    /\ argcOk \in BOOLEAN
    /\ (script = "A" => argcOk)
    /\ audioExists \in BOOLEAN
    /\ modelExists \in BOOLEAN
    /\ nchannels \in {1, 2}
    /\ sampwidth \in {1, 2}
    /\ comptype \in {"NONE", "OTHER"}
    /\ framerate \in Framerates
    /\ nframes \in 0..MaxFrames
    /\ chunkArg \in 0..MaxChunk
    /\ (script = "T" => chunkArg = 0)
    /\ pc = "main"
    /\ modelLoaded = FALSE
    /\ wfOpen = "never"
    /\ session = FALSE
    /\ chunk_size = 0
    /\ cursor = 0
    /\ lastRead = -1
    /\ eofSeen = FALSE
    /\ fed = << >>
    /\ boundary = FALSE
    /\ boundaries = 0
    /\ drains = 0
    /\ flushes = 0
    /\ produced = << >>
    /\ raisedAt = "none"
    /\ results = << >>
    /\ full_text = << >>
    /\ result = NoResultDict
    /\ out = << >>
    /\ exitCode = -1

\* ------------------------------------------------------------- documents
\* A JSON document on standard output: its keys and the values the claims
\* read.  entries is "segments" (T) or "results" (A).
ErrAudio == "Audio file not found"
ErrModel == "Model not found"
ErrFormat == "Audio file must be mono 16 bit PCM WAV"
ErrUsage == "Usage"
ErrEngine == "str(e)"

\* print(json.dumps({"error": msg}))                       transcribe.py
ErrorDoc(msg) ==
    [keys |-> {"error"}, error |-> msg, success |-> FALSE,
     entries |-> << >>, full_text |-> EmptyText]

\* print(json.dumps({"error": ..., "instructions": ...}))  transcribe.py:35-38
ModelMissingDoc ==
    [keys |-> {"error", "instructions"}, error |-> ErrModel, success |-> FALSE,
     entries |-> << >>, full_text |-> EmptyText]

\* ------------------------------------------------------ wave reader
Min(a, b) == IF a < b THEN a ELSE b

\* A reader that takes a count of 0 as "all remaining frames".
ReadFrames_ZeroReadsAll(cur, n) ==
    IF n = 0 THEN nframes - cur ELSE Min(n, nframes - cur)

\* Number of frames wf.readframes(n) returns with the cursor at cur.
ReadFrames(cur, n) == Min(n, nframes - cur)

\* wf.getnchannels() != 1 or wf.getsampwidth() != 2 or wf.getcomptype() != "NONE"
BadFormat == nchannels # 1 \/ sampwidth # 2 \/ comptype # "NONE"

\* ------------------------------------------------ transcribe.py: assembly
\* The segment with its end taken from the first word instead of the last.
Segment_FirstWordEnd(i, res) ==
    [id |-> i,
     start |-> IF res.words # << >> THEN res.words[1].start
               ELSE i * WindowSeconds,
     end |-> IF res.words # << >> THEN res.words[1].end
             ELSE (i + 1) * WindowSeconds,
     text |-> res.text,
     words |-> res.words]

\* The segment built from results[i] (0-based i) when "result" in res.
Segment(i, res) ==
    [id |-> i,
     start |-> IF res.words # << >> THEN res.words[1].start
               ELSE i * WindowSeconds,
     end |-> IF res.words # << >> THEN res.words[Len(res.words)].end
             ELSE (i + 1) * WindowSeconds,
     text |-> res.text,
     words |-> res.words]

\* Indices (1-based) of the results that carry a "result" key, in order.
WithResultKey(rs) ==
    SelectSeq([k \in 1..Len(rs) |-> k], LAMBDA k : rs[k].hasResult)

\* transcript["segments"] after the loop over enumerate(results).
Segments(rs) ==
    LET idx == WithResultKey(rs)
    IN [j \in 1..Len(idx) |-> Segment(idx[j] - 1, rs[idx[j]])]

\* transcript["full_text"] after the loop and the final strip().
FullTextT(rs) ==
    LET idx == WithResultKey(rs)
    IN Strip(ConcatWithSpace([j \in 1..Len(idx) |-> rs[idx[j]].text]))

\* print(json.dumps(transcript, ...))
TranscriptDoc(rs) ==
    [keys |-> {"segments", "full_text"}, error |-> None, success |-> TRUE,
     entries |-> Segments(rs), full_text |-> FullTextT(rs)]

\* ------------------------------------------------ transcribe.py: steps
\* except Exception as e: print(json.dumps({"error": str(e)})); sys.exit(1)
T_Except(step) ==
    /\ raisedAt' = step
    /\ out' = Append(out, ErrorDoc(ErrEngine))
    /\ exitCode' = 1
    /\ pc' = "done"

\* print(...) followed by sys.exit(1): the SystemExit is no Exception, so
\* the handler of the surrounding try block does not run.
T_PrintAndExit(doc) ==
    /\ out' = Append(out, doc)
    /\ exitCode' = 1
    /\ pc' = "done"

\* if __name__ == "__main__": usage check, then the call.
T_Main ==
    /\ script = "T" /\ pc = "main"
    /\ IF ~argcOk
       THEN T_PrintAndExit(ErrorDoc(ErrUsage))
       ELSE pc' = "check" /\ UNCHANGED <<out, exitCode>>
    /\ UNCHANGED <<inputs, reader, engine, raisedAt, collect>>

\* The two os.path.exists checks before the try block.
T_CheckPaths ==
    /\ script = "T" /\ pc = "check"
    /\ IF ~audioExists THEN T_PrintAndExit(ErrorDoc(ErrAudio))
       ELSE IF ~modelExists THEN T_PrintAndExit(ModelMissingDoc)
       ELSE pc' = "load" /\ UNCHANGED <<out, exitCode>>
    /\ UNCHANGED <<inputs, reader, engine, raisedAt, collect>>

\* model = Model(model_path)
T_LoadModel ==
    /\ script = "T" /\ pc = "load"
    /\ \/ /\ modelLoaded' = TRUE
          /\ pc' = "open"
          /\ UNCHANGED <<raisedAt, out, exitCode>>
       \/ /\ T_Except("load")
          /\ UNCHANGED modelLoaded
    /\ UNCHANGED <<inputs, reader, session, fed, boundary, boundaries,
                   drains, flushes,
                   produced, collect>>

\* wf = wave.open(audio_path, "rb")
T_OpenWave ==
    /\ script = "T" /\ pc = "open"
    /\ \/ /\ wfOpen' = "open"
          /\ pc' = "format"
          /\ UNCHANGED <<raisedAt, out, exitCode>>
       \/ /\ T_Except("open")
          /\ UNCHANGED wfOpen
    /\ UNCHANGED <<inputs, chunk_size, cursor, lastRead, eofSeen, engine,
                   collect>>

\* The format check with a handler that also catches the SystemExit of
\* sys.exit(1) (a bare except): a second error document is printed.
T_CheckFormat_Caught ==
    /\ script = "T" /\ pc = "format"
    /\ IF BadFormat
       THEN /\ out' = out \o <<ErrorDoc(ErrFormat), ErrorDoc(ErrEngine)>>
            /\ exitCode' = 1
            /\ pc' = "done"
       ELSE pc' = "create" /\ UNCHANGED <<out, exitCode>>
    /\ UNCHANGED <<inputs, reader, engine, raisedAt, collect>>

\* The format check inside the try block.
T_CheckFormat ==
    /\ script = "T" /\ pc = "format"
    /\ IF BadFormat THEN T_PrintAndExit(ErrorDoc(ErrFormat))
       ELSE pc' = "create" /\ UNCHANGED <<out, exitCode>>
    /\ UNCHANGED <<inputs, reader, engine, raisedAt, collect>>

\* rec = KaldiRecognizer(...); SetWords; SetPartialWords; results = [];
\* chunk_size = wf.getframerate() * 5
T_CreateRecognizer ==
    /\ script = "T" /\ pc = "create"
    /\ \/ /\ session' = TRUE
          /\ chunk_size' = framerate * WindowSeconds
          /\ results' = << >>
          /\ pc' = "read"
          /\ UNCHANGED <<raisedAt, out, exitCode>>
       \/ /\ T_Except("create")
          /\ UNCHANGED <<session, chunk_size, results>>
    /\ UNCHANGED <<inputs, wfOpen, cursor, lastRead, eofSeen, modelLoaded, fed,
                   boundary, boundaries, drains, flushes, produced, full_text, result>>

\* The read with the break taken on any short chunk: a short last chunk is
\* not fed.
T_ReadFrames_BreakOnShort ==
    /\ script = "T" /\ pc = "read"
    /\ lastRead' = ReadFrames(cursor, chunk_size)
    /\ cursor' = cursor + lastRead'
    /\ eofSeen' = (lastRead' < chunk_size)
    /\ pc' = IF lastRead' < chunk_size THEN "final" ELSE "feed"
    /\ UNCHANGED <<inputs, wfOpen, chunk_size, engine, raisedAt, collect, out,
                   exitCode>>

\* data = wf.readframes(chunk_size); if len(data) == 0: break
T_ReadFrames ==
    /\ script = "T" /\ pc = "read"
    /\ lastRead' = ReadFrames(cursor, chunk_size)
    /\ cursor' = cursor + lastRead'
    /\ eofSeen' = (lastRead' = 0)
    /\ pc' = IF lastRead' = 0 THEN "final" ELSE "feed"
    /\ UNCHANGED <<inputs, wfOpen, chunk_size, engine, raisedAt, collect, out,
                   exitCode>>

\* The feed followed by a drain whatever AcceptWaveform returned.
T_AcceptWaveform_AlwaysDrain ==
    /\ script = "T" /\ pc = "feed"
    /\ \/ /\ fed' = Append(fed, lastRead)
          /\ \E b \in BOOLEAN :
               /\ drains < MaxBoundaries
               /\ boundary' = b
               /\ boundaries' = boundaries + (IF b THEN 1 ELSE 0)
               /\ pc' = "result"
          /\ UNCHANGED <<raisedAt, out, exitCode>>
       \/ /\ fed' = Append(fed, lastRead)
          /\ T_Except("feed")
          /\ UNCHANGED <<boundary, boundaries>>
    /\ UNCHANGED <<inputs, reader, modelLoaded, session, drains, flushes,
                   produced, collect>>

\* if rec.AcceptWaveform(data):
T_AcceptWaveform ==
    /\ script = "T" /\ pc = "feed"
    /\ \/ /\ fed' = Append(fed, lastRead)
          /\ \E b \in BOOLEAN :
               /\ b => drains < MaxBoundaries
               /\ boundary' = b
               /\ boundaries' = boundaries + (IF b THEN 1 ELSE 0)
               /\ pc' = IF b THEN "result" ELSE "read"
          /\ UNCHANGED <<raisedAt, out, exitCode>>
       \/ /\ fed' = Append(fed, lastRead)
          /\ T_Except("feed")
          /\ UNCHANGED <<boundary, boundaries>>
    /\ UNCHANGED <<inputs, reader, modelLoaded, session, drains, flushes,
                   produced, collect>>

\* part_result = json.loads(rec.Result()); results.append(part_result)
T_Result ==
    /\ script = "T" /\ pc = "result"
    /\ drains' = drains + 1
    /\ \/ /\ \E r \in EngineResults :
               /\ produced' = Append(produced, r)
               /\ results' = Append(results, r)
          /\ pc' = "read"
          /\ UNCHANGED <<raisedAt, out, exitCode>>
       \/ /\ T_Except("drain")
          /\ UNCHANGED <<produced, results>>
    /\ UNCHANGED <<inputs, reader, modelLoaded, session, fed, boundary, boundaries,
                   flushes, full_text, result>>

\* part_result = json.loads(rec.FinalResult()); results.append(part_result)
T_FinalResult ==
    /\ script = "T" /\ pc = "final"
    /\ flushes' = flushes + 1
    /\ \/ /\ \E r \in EngineResults :
               /\ produced' = Append(produced, r)
               /\ results' = Append(results, r)
          /\ pc' = "assemble"
          /\ UNCHANGED <<raisedAt, out, exitCode>>
       \/ /\ T_Except("flush")
          /\ UNCHANGED <<produced, results>>
    /\ UNCHANGED <<inputs, reader, modelLoaded, session, fed, boundary, boundaries,
                   drains, full_text, result>>

\* Build the transcript, print it, return: the process ends with status 0.
T_Assemble ==
    /\ script = "T" /\ pc = "assemble"
    /\ out' = Append(out, TranscriptDoc(results))
    /\ exitCode' = 0
    /\ pc' = "done"
    /\ UNCHANGED <<inputs, reader, engine, raisedAt, collect>>

T_Next ==
    \/ T_Main \/ T_CheckPaths \/ T_LoadModel \/ T_OpenWave \/ T_CheckFormat
    \/ T_CreateRecognizer \/ T_ReadFrames \/ T_AcceptWaveform \/ T_Result
    \/ T_FinalResult \/ T_Assemble

\* ------------------------------------------ transcribe_audio.py: steps
\* The time taken at the start of the chunk just read instead of its end.
Timed_ChunkStart(r, cur) ==
    [hasResult |-> r.hasResult, text |-> r.text, words |-> r.words,
     time |-> [num |-> cur - lastRead, den |-> framerate]]

\* part_result["time"] = wf.tell() / wf.getframerate(), kept as a fraction.
Timed(r, cur) ==
    [hasResult |-> r.hasResult, text |-> r.text, words |-> r.words,
     time |-> [num |-> cur, den |-> framerate]]

\* if part_result.get("text", "").strip():
NonEmptyText(r) == Strip(r.text) # EmptyText

\* print(json.dumps(result)) of the dict returned by transcribe_audio.
ResultDoc ==
    [keys |-> {"success", "error", "results", "full_text"},
     error |-> result.error, success |-> result.success,
     entries |-> results, full_text |-> result.full_text]

\* The handler that also fills in the text collected so far.
A_Except_JoinsText(step) ==
    /\ raisedAt' = step
    /\ result' = [result EXCEPT !.error = ErrEngine,
                                !.full_text = Join(full_text)]
    /\ pc' = "print"

\* except Exception as e: result["error"] = str(e); then return result
A_Except(step) ==
    /\ raisedAt' = step
    /\ result' = [result EXCEPT !.error = ErrEngine]
    /\ pc' = "print"

\* result["error"] = msg; return result
A_Fail(msg) ==
    /\ result' = [result EXCEPT !.error = msg]
    /\ pc' = "print"

\* argparse, then the call: result = {...}, chunk_size = args.chunk_size
A_Main ==
    /\ script = "A" /\ pc = "main"
    /\ result' = NoResultDict
    /\ results' = << >>
    /\ chunk_size' = chunkArg
    /\ pc' = "check"
    /\ UNCHANGED <<inputs, wfOpen, cursor, lastRead, eofSeen, engine, raisedAt,
                   full_text, out, exitCode>>

\* The two os.path.exists checks: the model first, then the audio file.
A_CheckPaths ==
    /\ script = "A" /\ pc = "check"
    /\ IF ~modelExists THEN A_Fail(ErrModel)
       ELSE IF ~audioExists THEN A_Fail(ErrAudio)
       ELSE pc' = "load" /\ UNCHANGED result
    /\ UNCHANGED <<inputs, reader, engine, raisedAt, results, full_text, out,
                   exitCode>>

\* model = vosk.Model(model_path)
A_LoadModel ==
    /\ script = "A" /\ pc = "load"
    /\ \/ /\ modelLoaded' = TRUE
          /\ pc' = "open"
          /\ UNCHANGED <<raisedAt, result>>
       \/ /\ A_Except("load")
          /\ UNCHANGED modelLoaded
    /\ UNCHANGED <<inputs, reader, session, fed, boundary, boundaries,
                   drains, flushes,
                   produced, results, full_text, out, exitCode>>

\* wf = wave.open(audio_path, "rb")
A_OpenWave ==
    /\ script = "A" /\ pc = "open"
    /\ \/ /\ wfOpen' = "open"
          /\ pc' = "format"
          /\ UNCHANGED <<raisedAt, result>>
       \/ /\ A_Except("open")
          /\ UNCHANGED wfOpen
    /\ UNCHANGED <<inputs, chunk_size, cursor, lastRead, eofSeen, engine,
                   results, full_text, out, exitCode>>

\* The format check.
A_CheckFormat ==
    /\ script = "A" /\ pc = "format"
    /\ IF BadFormat THEN A_Fail(ErrFormat)
       ELSE pc' = "create" /\ UNCHANGED result
    /\ UNCHANGED <<inputs, reader, engine, raisedAt, results, full_text, out,
                   exitCode>>

\* recognizer = vosk.KaldiRecognizer(...); SetWords(True); full_text = []
A_CreateRecognizer ==
    /\ script = "A" /\ pc = "create"
    /\ \/ /\ session' = TRUE
          /\ full_text' = << >>
          /\ pc' = "read"
          /\ UNCHANGED <<raisedAt, result>>
       \/ /\ A_Except("create")
          /\ UNCHANGED <<session, full_text>>
    /\ UNCHANGED <<inputs, reader, modelLoaded, fed, boundary, boundaries,
                   drains, flushes,
                   produced, results, out, exitCode>>

\* The read without the break on a zero-length chunk: the empty chunk is
\* fed and the loop goes on.
A_ReadFrames_NoBreak ==
    /\ script = "A" /\ pc = "read"
    /\ lastRead' = ReadFrames(cursor, chunk_size)
    /\ cursor' = cursor + lastRead'
    /\ eofSeen' = (lastRead' = 0)
    /\ pc' = "feed"
    /\ UNCHANGED <<inputs, wfOpen, chunk_size, engine, raisedAt, collect, out,
                   exitCode>>

\* data = wf.readframes(chunk_size); if len(data) == 0: break
A_ReadFrames ==
    /\ script = "A" /\ pc = "read"
    /\ lastRead' = ReadFrames(cursor, chunk_size)
    /\ cursor' = cursor + lastRead'
    /\ eofSeen' = (lastRead' = 0)
    /\ pc' = IF lastRead' = 0 THEN "final" ELSE "feed"
    /\ UNCHANGED <<inputs, wfOpen, chunk_size, engine, raisedAt, collect, out,
                   exitCode>>

\* The feed with the loop left for the flush as soon as a chunk closes no
\* utterance.
A_AcceptWaveform_FlushEarly ==
    /\ script = "A" /\ pc = "feed"
    /\ \/ /\ fed' = Append(fed, lastRead)
          /\ \E b \in BOOLEAN :
               /\ b => drains < MaxBoundaries
               /\ boundary' = b
               /\ boundaries' = boundaries + (IF b THEN 1 ELSE 0)
               /\ pc' = IF b THEN "result" ELSE "final"
          /\ UNCHANGED <<raisedAt, result>>
       \/ /\ fed' = Append(fed, lastRead)
          /\ A_Except("feed")
          /\ UNCHANGED <<boundary, boundaries>>
    /\ UNCHANGED <<inputs, reader, modelLoaded, session, drains, flushes,
                   produced, results, full_text, out, exitCode>>

\* if recognizer.AcceptWaveform(data):
A_AcceptWaveform ==
    /\ script = "A" /\ pc = "feed"
    /\ \/ /\ fed' = Append(fed, lastRead)
          /\ \E b \in BOOLEAN :
               /\ b => drains < MaxBoundaries
               /\ boundary' = b
               /\ boundaries' = boundaries + (IF b THEN 1 ELSE 0)
               /\ pc' = IF b THEN "result" ELSE "read"
          /\ UNCHANGED <<raisedAt, result>>
       \/ /\ fed' = Append(fed, lastRead)
          /\ A_Except("feed")
          /\ UNCHANGED <<boundary, boundaries>>
    /\ UNCHANGED <<inputs, reader, modelLoaded, session, drains, flushes,
                   produced, results, full_text, out, exitCode>>

\* The append guarded by the raw text, without strip().
A_Collect_NoStrip(r) ==
    IF r.text # EmptyText
    THEN /\ results' = Append(results, Timed(r, cursor))
         /\ full_text' = Append(full_text, r.text)
    ELSE UNCHANGED <<results, full_text>>

\* The append of a drained or flushed result r, guarded by its text.
A_Collect(r) ==
    IF NonEmptyText(r)
    THEN /\ results' = Append(results, Timed(r, cursor))
         /\ full_text' = Append(full_text, r.text)
    ELSE UNCHANGED <<results, full_text>>

\* part_result = json.loads(recognizer.Result()) and the guarded append
A_Result ==
    /\ script = "A" /\ pc = "result"
    /\ drains' = drains + 1
    /\ \/ /\ \E r \in EngineResults :
               /\ produced' = Append(produced, r)
               /\ A_Collect(r)
          /\ pc' = "read"
          /\ UNCHANGED <<raisedAt, result>>
       \/ /\ A_Except("drain")
          /\ UNCHANGED <<produced, results, full_text>>
    /\ UNCHANGED <<inputs, reader, modelLoaded, session, fed, boundary, boundaries,
                   flushes, out, exitCode>>

\* part_result = json.loads(recognizer.FinalResult()), the guarded append,
\* result["full_text"] = " ".join(full_text), result["success"] = True
A_FinalResult ==
    /\ script = "A" /\ pc = "final"
    /\ flushes' = flushes + 1
    /\ \/ /\ \E r \in EngineResults :
               /\ produced' = Append(produced, r)
               /\ A_Collect(r)
          /\ result' = [result EXCEPT !.full_text = Join(full_text'),
                                      !.success = TRUE]
          /\ pc' = "print"
          /\ UNCHANGED raisedAt
       \/ /\ A_Except("flush")
          /\ UNCHANGED <<produced, results, full_text>>
    /\ UNCHANGED <<inputs, reader, modelLoaded, session, fed, boundary, boundaries,
                   drains, out, exitCode>>

\* print(json.dumps(result)); the script ends, so the exit status is 0.
A_Print ==
    /\ script = "A" /\ pc = "print"
    /\ out' = Append(out, ResultDoc)
    /\ exitCode' = 0
    /\ pc' = "done"
    /\ UNCHANGED <<inputs, reader, engine, raisedAt, collect>>

A_Next ==
    \/ A_Main \/ A_CheckPaths \/ A_LoadModel \/ A_OpenWave \/ A_CheckFormat
    \/ A_CreateRecognizer \/ A_ReadFrames \/ A_AcceptWaveform \/ A_Result
    \/ A_FinalResult \/ A_Print

Next == T_Next \/ A_Next

Spec == Init /\ [][Next]_vars

\* The script runs to its end: no step is postponed for ever.
FairSpec == Spec /\ WF_vars(Next)

\* ------------------------------------------------------------ observations
Done == pc = "done"

\* The last document printed (the only one, when there is exactly one).
Doc == out[Len(out)]

\* The run ended in success: the transcript (T) or success = true (A).
Succeeded == Done /\ Doc.success

\* The texts of the emitted entries (segments or results), in list order.
EntryTexts(d) == [i \in DOMAIN d.entries |-> d.entries[i].text]

\* The run got past the argument and path checks with a bad WAV header.
BadFormatRun == Done /\ argcOk /\ audioExists /\ modelExists /\ BadFormat

\* A result with non-empty text had been returned before the engine raised.
RaisedAfterResults ==
    /\ Done
    /\ raisedAt \in {"feed", "drain", "flush"}
    /\ \E i \in DOMAIN produced : NonEmptyText(produced[i])

\* ------------------------------------------------------------------ C1
\* C1: in every successful run of transcribe.py no emitted segment has a
\* text that is empty after trimming.
C1_NoEmptySegmentText ==
    (script = "T" /\ Succeeded) =>
        \A i \in DOMAIN Doc.entries : Strip(Doc.entries[i].text) # EmptyText

\* ------------------------------------------------------------------ C2
\* C2: the segment ids of a transcript of transcribe.py, in list order, are
\* 0, 1, ..., n-1.
C2_IdsConsecutive ==
    (script = "T" /\ Succeeded) =>
        \A i \in DOMAIN Doc.entries : Doc.entries[i].id = i - 1

\* ------------------------------------------------------------------ C3
\* C3: on every successful run of either script full_text is the texts of
\* the emitted entries joined with one space and then trimmed.
C3_FullTextIsTrimmedJoin ==
    Succeeded => Doc.full_text = Strip(Join(EntryTexts(Doc)))

\* ------------------------------------------------------------------ C4
\* C4: a WAV file that is not mono, 16 bit, uncompressed ends either script
\* in a format error with no segments, no recognizer session and no audio
\* fed, drained or flushed.
C4_BadFormatRejected ==
    BadFormatRun =>
        /\ Doc.error = ErrFormat
        /\ ~Doc.success
        /\ Doc.entries = << >>
        /\ ~session
        /\ fed = << >> /\ drains = 0 /\ flushes = 0

\* ------------------------------------------------------------------ C5
\* C5: for both scripts the exit status is 0 exactly when the run succeeded.
C5_ExitZeroIffSuccess ==
    Done => (exitCode = 0 <=> Doc.success)

\* ------------------------------------------------------------------ C6
\* C6: when the engine raises during feed, drain or flush after a non-empty
\* result was collected, the emitted document carries the error and none of
\* the results or text collected so far.
C6_AllOrNothing ==
    RaisedAfterResults =>
        /\ "error" \in Doc.keys
        /\ Doc.error # None
        /\ Doc.entries = << >>
        /\ Doc.full_text = EmptyText

\* ------------------------------------------------------------------ C7
\* C7: when the audio file does not exist, whatever the model path, either
\* script reports the missing audio file, loads no model and feeds no audio.
C7_AudioMissingReported ==
    (Done /\ argcOk /\ ~audioExists) =>
        /\ "error" \in Doc.keys
        /\ Doc.error = ErrAudio
        /\ ~modelLoaded
        /\ fed = << >>

\* ------------------------------------------------------------------ C8
\* C8: when the audio file exists and the model does not, the document of
\* either script has both an error field and an instructions field.
C8_ModelMissingHasInstructions ==
    (Done /\ argcOk /\ audioExists /\ ~modelExists) =>
        {"error", "instructions"} \subseteq Doc.keys

\* ------------------------------------------------------------------ C9
\* C9: transcribe.py never has more than one JSON document on standard
\* output, and has exactly one when the process has ended, on every path.
C9_ExactlyOneDocument ==
    script = "T" => /\ Len(out) <= 1
                    /\ Done => Len(out) = 1

\* A run of transcribe.py ended on the format check inside the try block,
\* with its single document printed.
C9_Witness ==
    /\ script = "T" /\ Done
    /\ BadFormat /\ wfOpen = "open"
    /\ Len(out) = 1 /\ Doc.error = ErrFormat

\* ------------------------------------------------------------------ C10
\* The chunk size is at least one frame.
ChunkAtLeastOne == script = "A" => chunkArg >= 1

\* Frames fed so far.
RECURSIVE Sum(_)
Sum(l) == IF l = << >> THEN 0 ELSE Head(l) + Sum(Tail(l))

\* C10: with a chunk size of at least one frame, a read that returns frames
\* moves the cursor forward; after a read returned no frame every later read
\* returns none; and the loop ends after at most nframes feeds, so the run
\* terminates.
C10_ReaderTerminates ==
    /\ [][(ChunkAtLeastOne /\ pc = "read" /\ lastRead' > 0)
            => cursor' > cursor]_vars
    /\ []((ChunkAtLeastOne /\ eofSeen) => ReadFrames(cursor, chunk_size) = 0)
    /\ [](ChunkAtLeastOne =>
            (Len(fed) <= nframes /\ Sum(fed) <= cursor /\ cursor <= nframes))
    /\ <>(ChunkAtLeastOne => Done)

\* A run read several chunks, the last one short, reached end of stream
\* and ended.
C10_Witness ==
    /\ Done /\ eofSeen
    /\ Len(fed) >= 2
    /\ fed[Len(fed)] < chunk_size
    /\ cursor = nframes

\* ------------------------------------------------------------------ C11
\* C11: in every run that opened the audio file, the file handle has been
\* closed when the run ends, on every exit path.
C11_HandleReleased ==
    Done => wfOpen # "open"

\* ------------------------------------------------------------------ C12
\* The engine result a segment of transcribe.py was built from.
ResultOf(seg) == produced[seg.id + 1]

\* C12: every segment of transcribe.py has start <= end; with a non-empty
\* word list start is the first word's start and end the last word's end;
\* with an empty one start and end are i and i+1 chunk windows, the window
\* being the chunk the driver reads (chunk_size frames at framerate).
C12_SegmentTimes ==
    (script = "T" /\ Succeeded) =>
        \A j \in DOMAIN Doc.entries :
            LET seg == Doc.entries[j]
                w == ResultOf(seg).words
            IN /\ seg.start <= seg.end
               /\ w # << >> => /\ seg.start = w[1].start
                               /\ seg.end = w[Len(w)].end
               /\ w = << >> =>
                     /\ seg.start * framerate = seg.id * chunk_size
                     /\ seg.end * framerate = (seg.id + 1) * chunk_size
                     /\ seg.start = seg.id * WindowSeconds

\* A transcript with a segment timed by its words and a later segment
\* timed by its index.
C12_Witness ==
    /\ script = "T" /\ Succeeded
    /\ \E j, k \in DOMAIN Doc.entries :
         /\ Doc.entries[j].words # << >>
         /\ Doc.entries[k].words = << >>
         /\ Doc.entries[k].id >= 1

\* ------------------------------------------------------------------ C13
\* The texts, in order, of the engine results whose text is not empty
\* after trimming.
NonEmptyTexts(rs) ==
    LET kept == SelectSeq(rs, LAMBDA r : Strip(r.text) # EmptyText)
    IN [i \in DOMAIN kept |-> kept[i].text]

\* C13: the segment texts of transcribe.py are exactly the texts of the
\* engine results that are non-empty after trimming, in production order.
C13_OneSegmentPerNonEmptyResult ==
    (script = "T" /\ Succeeded) => EntryTexts(Doc) = NonEmptyTexts(produced)

\* ------------------------------------------------------------------ C14
\* An engine result without the time transcribe_audio.py attaches to it.
Untimed(e) == [hasResult |-> e.hasResult, text |-> e.text, words |-> e.words]

\* C14: in transcribe_audio.py the results list is at every moment the
\* drained and flushed engine results whose text is non-empty after
\* trimming, in arrival order, and the collected text list is their texts;
\* a result with an empty trimmed text changes neither.
C14_ResultsAreNonEmptyProduced ==
    script = "A" =>
        LET kept == SelectSeq(produced, LAMBDA r : Strip(r.text) # EmptyText)
        IN /\ [i \in DOMAIN results |-> Untimed(results[i])] = kept
           /\ full_text = [i \in DOMAIN kept |-> kept[i].text]

\* A blank result was drained and dropped, then a non-empty one was flushed
\* and kept.
C14_Witness ==
    /\ script = "A" /\ Done
    /\ Len(produced) = 2 /\ Len(results) = 1
    /\ Strip(produced[1].text) = EmptyText
    /\ produced[1].text # EmptyText

\* ------------------------------------------------------------------ C15
\* A step that reads a chunk: the cursor moves or end of stream is seen.
ReadStep == cursor' # cursor \/ eofSeen' # eofSeen

\* C15: in both scripts Result() is called exactly once after each feed
\* that reported a boundary, before the next chunk is read, and never
\* after a feed that reported none or before the first feed.
C15_DrainFollowsBoundary ==
    /\ [](drains <= boundaries /\ boundaries <= drains + 1)
    /\ [](boundaries = drains + 1 <=> pc = "result")
    /\ [][drains' # drains =>
            /\ drains' = drains + 1
            /\ boundary /\ fed # << >> /\ fed' = fed
            /\ boundaries = drains + 1]_vars
    /\ [][ReadStep => boundaries = drains]_vars

\* A run fed a chunk that closed an utterance, drained it once, read and
\* fed another chunk and ended without an exception.
C15_Witness ==
    /\ Done /\ raisedAt = "none"
    /\ boundaries = 1 /\ drains = 1
    /\ Len(fed) >= 2 /\ Len(produced) = 2

\* ------------------------------------------------------------------ C16
\* C16: in both scripts FinalResult() is called exactly once in every run
\* whose loop ended at end of stream, after the last chunk was fed; no
\* feed or drain follows it; a run that failed before or during the loop
\* does not call it.
C16_FlushOnceAtEnd ==
    /\ [](flushes <= 1)
    /\ [](flushes = 1 =>
            /\ eofSeen /\ Sum(fed) = cursor
            /\ ChunkAtLeastOne => cursor = nframes)
    /\ []((Done /\ eofSeen) => flushes = 1)
    /\ []((Done /\ ~eofSeen) => flushes = 0)
    /\ [](raisedAt \in {"load", "open", "create", "feed", "drain"}
            => flushes = 0)
    /\ [][flushes >= 1 => (fed' = fed /\ drains' = drains)]_vars

\* A successful run that drained one result in the loop and then flushed.
C16_Witness ==
    /\ Succeeded
    /\ flushes = 1 /\ drains = 1
    /\ fed # << >> /\ cursor = nframes

\* ------------------------------------------------------------------ C17
\* Frames in the first k chunks fed.
FedUpTo(k) == Sum(SubSeq(fed, 1, k))

\* The flushed result is the last entry of the results list.
FlushedKept ==
    /\ flushes = 1 /\ raisedAt # "flush"
    /\ Strip(produced[Len(produced)].text) # EmptyText

\* The times of the results list are frame counts after whole chunks over
\* the sample rate, non-decreasing and at most the duration of the file.
TimesWithinFile ==
    \A i \in DOMAIN results :
        /\ results[i].time.den = framerate
        /\ \E k \in 0..Len(fed) : results[i].time.num = FedUpTo(k)
        /\ results[i].time.num <= nframes
        /\ i > 1 => results[i - 1].time.num <= results[i].time.num

\* C17 as stated: in transcribe_audio.py every time is the frames read up
\* to a fed chunk over the sample rate, the times are non-decreasing and
\* within the duration, and the flushed result's time is the duration.
C17_TimesAndFlushAtDuration ==
    script = "A" =>
        /\ TimesWithinFile
        /\ FlushedKept => results[Len(results)].time.num = nframes

\* C17 amended: the time of an appended result is the frames read up to and
\* including the chunk just fed over the sample rate; the times are
\* non-decreasing and within the duration; with a chunk size of at least
\* one frame the flushed result's time is the duration.
C17_TimesAmended ==
    /\ [](script = "A" => TimesWithinFile)
    /\ []((script = "A" /\ ChunkAtLeastOne /\ FlushedKept)
            => results[Len(results)].time.num = nframes)
    /\ [][(script = "A" /\ Len(results') > Len(results)) =>
            results'[Len(results')].time =
                [num |-> Sum(fed'), den |-> framerate]]_vars

\* A result drained after the first chunk and one flushed at the end of a
\* longer file, with different times.
C17_Witness ==
    /\ script = "A" /\ Done /\ chunkArg >= 1
    /\ Len(results) = 2 /\ drains = 1 /\ FlushedKept
    /\ results[1].time.num < results[2].time.num
    /\ results[2].time.num = nframes

\* ------------------------------------------------------------------ C18
\* C18: in the document transcribe_audio.py returns, success is true
\* exactly when error is null, and full_text is empty when success is
\* false, on every path.
C18_SuccessIffNoError ==
    (script = "A" /\ pc \in {"print", "done"}) =>
        /\ result.success <=> result.error = None
        /\ ~result.success => result.full_text = EmptyText
        /\ Done => /\ Doc.success <=> Doc.error = None
                   /\ ~Doc.success => Doc.full_text = EmptyText

\* The flush raised after a result had been collected.
C18_Witness ==
    /\ script = "A" /\ Done
    /\ raisedAt = "flush" /\ results # << >>
    /\ ~Doc.success /\ Doc.error = ErrEngine

\* ------------------------------------------------------------------ C19
\* C19: with a chunk size of at least one frame, each chunk fed is the one
\* just read and starts where the frames fed before it end; in a run that
\* reaches the flush the chunks fed add up to the whole file, every chunk
\* but the last has the chunk size and none is empty.
C19_EveryFrameFedOnce ==
    /\ [][fed' # fed =>
            /\ fed' = Append(fed, lastRead)
            /\ lastRead > 0
            /\ Sum(fed) = cursor - lastRead]_vars
    /\ []((ChunkAtLeastOne /\ flushes >= 1) =>
            /\ Sum(fed) = nframes
            /\ \A i \in DOMAIN fed :
                 /\ fed[i] >= 1 /\ fed[i] <= chunk_size
                 /\ i < Len(fed) => fed[i] = chunk_size)

\* Three chunks were fed, the last one short, and the flush was reached.
C19_Witness ==
    /\ flushes = 1
    /\ Len(fed) = 3
    /\ fed[1] = chunk_size /\ fed[2] = chunk_size /\ fed[3] < chunk_size

\* ------------------------------------------------------------------ C20
\* A run of transcribe_audio.py with --chunk-size 0 on a valid file, in
\* which no call raised.
ZeroChunkRun ==
    /\ script = "A" /\ chunkArg = 0 /\ Done
    /\ audioExists /\ modelExists /\ ~BadFormat
    /\ raisedAt = "none"

\* C20: with --chunk-size 0 the first read is empty, no chunk is fed, the
\* flush is still called and the run is a success built from the result
\* of that flush alone (no results and no text when its text is blank).
C20_ZeroChunkSize ==
    /\ (script = "A" /\ chunkArg = 0) =>
            (fed = << >> /\ drains = 0 /\ cursor = 0)
    /\ ZeroChunkRun =>
        /\ flushes = 1 /\ Len(produced) = 1
        /\ Doc.success /\ exitCode = 0
        /\ Doc.full_text = Join(EntryTexts(Doc))
        /\ IF Strip(produced[1].text) = EmptyText
           THEN Doc.entries = << >> /\ Doc.full_text = EmptyText
           ELSE /\ Len(Doc.entries) = 1
                /\ Doc.entries[1].text = produced[1].text
                /\ Doc.entries[1].time.num = 0

\* A non-empty valid file reported as success with nothing fed.
C20_Witness ==
    /\ ZeroChunkRun
    /\ nframes > 0
    /\ Doc.success /\ Doc.entries = << >>

====
